---- MODULE Spec2Model ----
(***************************************************************************)
(* A model of package dot (graph.go): the in-memory dot-file builder       *)
(* (Literal, VertexDescription, EdgeDescription, Graph) and its            *)
(* serialisation to an io.Writer.                                          *)
(*                                                                         *)
(* A Go string is modelled as the sequence of its characters, each a       *)
(* one-character TLA+ string, so that value[0] == '<', strings.ToLower     *)
(* and the %d verb are computed and not assumed.                           *)
(***************************************************************************)
EXTENDS Integers, Sequences, FiniteSets, TLC

VARIABLES
    graphs,     \* the Graph objects of the caller, by address
    vertices,   \* the VertexDescription objects of the caller, by address
    calls,      \* history: per graph, the Add* calls made on it, in call order
    stack,      \* the active Graph.Write frames, innermost first
    out,        \* the bytes the io.Writer has accepted during the current call
    log,        \* history: the writes issued to the io.Writer and the returns
    result,     \* what the outermost Write call returned (NotReturned before)
    target,     \* the graph the caller passed to the outermost Write call
    prev        \* history: <<graph, bytes>> of the preceding failure-free call

vars == <<graphs, vertices, calls, stack, out, log, result, target, prev>>

-----------------------------------------------------------------------------
(* Bounds of the model *)

\* the Add* calls made on all graphs together
MaxElems == 3
\* the largest |Peripheries| drawn for a vertex
MaxPeriph == 12

-----------------------------------------------------------------------------
(* Strings *)

EmptyStr == <<>>

UpperCase == <<"A","B","C","D","E","F","G","H","I","J","K","L","M",
               "N","O","P","Q","R","S","T","U","V","W","X","Y","Z">>
LowerCase == <<"a","b","c","d","e","f","g","h","i","j","k","l","m",
               "n","o","p","q","r","s","t","u","v","w","x","y","z">>

\* unicode.ToLower on one character
LowerChar(c) ==
    IF \E k \in 1..Len(UpperCase) : UpperCase[k] = c
    THEN LowerCase[CHOOSE k \in 1..Len(UpperCase) : UpperCase[k] = c]
    ELSE c

\* strings.ToLower
ToLower(s) == [k \in 1..Len(s) |-> LowerChar(s[k])]

DigitChars == <<"0","1","2","3","4","5","6","7","8","9">>

RECURSIVE NatStr(_)
\* the decimal digits of n >= 0
NatStr(n) ==
    IF n < 10 THEN <<DigitChars[n + 1]>>
    ELSE NatStr(n \div 10) \o <<DigitChars[(n % 10) + 1]>>

\* fmt's %d verb
FmtInt(n) == IF n < 0 THEN <<"-">> \o NatStr(0 - n) ELSE NatStr(n)

-----------------------------------------------------------------------------
(* VertexDescription *)

\* the declared fields of the struct, in declaration order (reflect index + 1)
FieldKeys == <<"ID", "Label", "Group", "Color", "Style", "ColorScheme",
               "FontColor", "FontName", "Shape", "Peripheries">>

FieldNames == << <<"I","D">>,
                 <<"L","a","b","e","l">>,
                 <<"G","r","o","u","p">>,
                 <<"C","o","l","o","r">>,
                 <<"S","t","y","l","e">>,
                 <<"C","o","l","o","r","S","c","h","e","m","e">>,
                 <<"F","o","n","t","C","o","l","o","r">>,
                 <<"F","o","n","t","N","a","m","e">>,
                 <<"S","h","a","p","e">>,
                 <<"P","e","r","i","p","h","e","r","i","e","s">> >>

NumField == Len(FieldKeys)

\* reflect's Kind of field i
FieldKind(i) == IF FieldKeys[i] = "Peripheries" THEN "int" ELSE "string"

NewVertexDescription(id) ==
    [ID |-> id, Label |-> EmptyStr, Group |-> EmptyStr, Color |-> EmptyStr,
     Style |-> EmptyStr, ColorScheme |-> EmptyStr, FontColor |-> EmptyStr,
     FontName |-> EmptyStr, Shape |-> EmptyStr, Peripheries |-> 0]

\* mutant of FieldStr: the HTML-like exception is lost, every value is quoted
FieldStrAlwaysQuoted(v, i) ==
    LET name  == ToLower(FieldNames[i])
        value == v[FieldKeys[i]]
    IN  IF FieldKind(i) = "string"
        THEN IF value # EmptyStr
             THEN name \o <<"=", "\"">> \o value \o <<"\"", " ">>
             ELSE EmptyStr
        ELSE IF value # 0
             THEN name \o <<"=", "\"">> \o FmtInt(value) \o <<"\"", " ">>
             ELSE EmptyStr

\* one pass of the loop body of VertexDescription.Write: what field i adds
FieldStr(v, i) ==
    LET name  == ToLower(FieldNames[i])
        value == v[FieldKeys[i]]
    IN  IF FieldKind(i) = "string"
        THEN IF value # EmptyStr
             THEN IF value[1] = "<"
                  THEN name \o <<"=">> \o value \o <<" ">>
                  ELSE name \o <<"=", "\"">> \o value \o <<"\"", " ">>
             ELSE EmptyStr
        ELSE IF value # 0
             THEN name \o <<"=", "\"">> \o FmtInt(value) \o <<"\"", " ">>
             ELSE EmptyStr

RECURSIVE FieldsStr(_, _)
\* the loop of VertexDescription.Write from field i on
FieldsStr(v, i) ==
    IF i > NumField THEN EmptyStr
    ELSE FieldStr(v, i) \o FieldsStr(v, i + 1)

\* nodeStr of VertexDescription.Write; the loop starts after the ID field
VertexStr(v) == (v.ID \o <<" ">>) \o <<"[">> \o FieldsStr(v, 2) \o <<"]">>

-----------------------------------------------------------------------------
(* EdgeDescription *)

NewEdge(from, to, directed, style) ==
    [kind |-> "edge", From |-> from, To |-> to,
     Directed |-> directed, Style |-> style]

\* mutant of EdgeStr: the arrow does not follow Directed
EdgeStrAlwaysDirected(e) ==
    LET base == e.From.ID \o <<" ","-",">"," ">> \o e.To.ID
    IN  IF e.Style # EmptyStr
        THEN base \o <<" ","["," ","s","t","y","l","e","=","\"">>
                  \o e.Style \o <<"\""," ","]">>
        ELSE base

\* edgeStr of EdgeDescription.Write
EdgeStr(e) ==
    LET arrow == IF e.Directed THEN <<"-", ">">> ELSE <<"-", "-">>
        base  == e.From.ID \o <<" ">> \o arrow \o <<" ">> \o e.To.ID
    IN  IF e.Style # EmptyStr
        THEN base \o <<" ","["," ","s","t","y","l","e","=","\"">>
                  \o e.Style \o <<"\""," ","]">>
        ELSE base

-----------------------------------------------------------------------------
(* Graph: construction and the Add* methods *)

GraphIds == {1, 2}
VertexIds == {1, 2}

\* the name each Graph object is constructed with
GraphName(g) == IF g = 1 THEN <<"G">> ELSE <<"S">>
\* the ID each VertexDescription object is constructed with
VertexName(v) == IF v = 1 THEN <<"a">> ELSE <<"b">>

Hello == <<"h","e","l","l","o">>
Same == <<"s","a","m","e">>
Dotted == <<"d","o","t","t","e","d">>

NewGraph(name) ==
    [Name |-> name, Body |-> <<>>, IsSubGraph |-> FALSE, Rank |-> EmptyStr]

\* &Literal{Line: line}
NewLiteral(line) == [kind |-> "literal", Line |-> line]

\* commentStr of AddComment
CommentStr(text) == <<"/","*"," ">> \o text \o <<" ","*","/">>

\* mutant of VertexRef: the body holds the vertex as it is at the call
VertexSnapshot(v) == [kind |-> "literal", Line |-> VertexStr(vertices[v])]

\* a *VertexDescription held in a body: the address, not the value
VertexRef(v) == [kind |-> "vertex", ptr |-> v]

\* a *Graph held in a body
GraphRef(g) == [kind |-> "graph", ptr |-> g]

\* mutant of AppendBody: the new element goes first
PrependBody(graph, line) == [graph EXCEPT !.Body = <<line>> \o @]

\* graph.Body = append(graph.Body, line)
AppendBody(graph, line) == [graph EXCEPT !.Body = Append(@, line)]

\* the Add* calls made so far, on all graphs together
TotalElems ==
    LET RECURSIVE Sum(_)
        Sum(S) == IF S = {} THEN 0
                  ELSE LET g == CHOOSE x \in S : TRUE
                       IN  Len(calls[g]) + Sum(S \ {g})
    IN  Sum(GraphIds)

\* the nil error; the k-th write an io.Writer fails returns the error value k
Nil == 0
\* no outermost Write call has returned yet
NotReturned == Nil - 1

RECURSIVE Reaches(_, _, _)
\* graph a is graph b or holds it, directly or through nested graphs
\* (fuel bounds the descent; there are no more levels than graphs)
Reaches(a, b, fuel) ==
    \/ a = b
    \/ /\ fuel > 0
       /\ \E k \in 1..Len(graphs[a].Body) :
            /\ graphs[a].Body[k].kind = "graph"
            /\ Reaches(graphs[a].Body[k].ptr, b, fuel - 1)

\* the caller is between calls and may make another Add* call
CallerMayAdd == stack = <<>> /\ TotalElems < MaxElems

\* a caller that changes the model starts over with a fresh writer
Forget ==
    /\ out' = EmptyStr
    /\ log' = <<>>
    /\ result' = NotReturned
    /\ target' = 0
    /\ prev' = <<>>

AddComment(g, text) ==
    /\ CallerMayAdd
    /\ graphs' = [graphs EXCEPT ![g] = AppendBody(@, NewLiteral(CommentStr(text)))]
    /\ calls' = [calls EXCEPT ![g] = Append(@, [op |-> "AddComment", text |-> text])]
    /\ Forget
    /\ UNCHANGED <<vertices, stack>>

AddNewLine(g) ==
    /\ CallerMayAdd
    /\ graphs' = [graphs EXCEPT ![g] = AppendBody(@, NewLiteral(EmptyStr))]
    /\ calls' = [calls EXCEPT ![g] = Append(@, [op |-> "AddNewLine"])]
    /\ Forget
    /\ UNCHANGED <<vertices, stack>>

AddVertex(g, v) ==
    /\ CallerMayAdd
    /\ graphs' = [graphs EXCEPT ![g] = AppendBody(@, VertexRef(v))]
    /\ calls' = [calls EXCEPT ![g] = Append(@, [op |-> "AddVertex", v |-> v])]
    /\ Forget
    /\ UNCHANGED <<vertices, stack>>

AddEdge(g, v1, v2, directed, style) ==
    /\ CallerMayAdd
    /\ graphs' = [graphs EXCEPT ![g] =
                    AppendBody(@, NewEdge(vertices[v1], vertices[v2], directed, style))]
    /\ calls' = [calls EXCEPT ![g] =
                    Append(@, [op |-> "AddEdge", v1 |-> v1, v2 |-> v2,
                               id1 |-> vertices[v1].ID, id2 |-> vertices[v2].ID,
                               directed |-> directed, style |-> style])]
    /\ Forget
    /\ UNCHANGED <<vertices, stack>>

\* mutant of AddSubGraph: the added graph is flagged a subgraph
AddSubGraphFlagging(g, sGraph) ==
    /\ CallerMayAdd
    /\ ~Reaches(sGraph, g, Cardinality(GraphIds))
    /\ graphs' = [graphs EXCEPT ![g] = AppendBody(@, GraphRef(sGraph)),
                                ![sGraph].IsSubGraph = TRUE]
    /\ calls' = [calls EXCEPT ![g] = Append(@, [op |-> "AddSubGraph", sGraph |-> sGraph])]
    /\ Forget
    /\ UNCHANGED <<vertices, stack>>

\* the caller must not nest a graph in itself: Write would not return
AddSubGraph(g, sGraph) ==
    /\ CallerMayAdd
    /\ ~Reaches(sGraph, g, Cardinality(GraphIds))
    /\ graphs' = [graphs EXCEPT ![g] = AppendBody(@, GraphRef(sGraph))]
    /\ calls' = [calls EXCEPT ![g] = Append(@, [op |-> "AddSubGraph", sGraph |-> sGraph])]
    /\ Forget
    /\ UNCHANGED <<vertices, stack>>

(* Assignments of the caller to the exported fields *)

\* graph.Rank = rank
SetRank(g, rank) ==
    /\ stack = <<>>
    /\ graphs[g].Rank # rank
    /\ graphs' = [graphs EXCEPT ![g].Rank = rank]
    /\ Forget
    /\ UNCHANGED <<vertices, calls, stack>>

\* graph.IsSubGraph = flag
SetIsSubGraph(g, flag) ==
    /\ stack = <<>>
    /\ graphs[g].IsSubGraph # flag
    /\ graphs' = [graphs EXCEPT ![g].IsSubGraph = flag]
    /\ Forget
    /\ UNCHANGED <<vertices, calls, stack>>

\* v.<key> = value
SetVertexField(v, key, value) ==
    /\ stack = <<>>
    /\ vertices[v][key] # value
    /\ vertices' = [vertices EXCEPT ![v][key] = value]
    /\ Forget
    /\ UNCHANGED <<graphs, calls, stack>>

-----------------------------------------------------------------------------
(* Graph.Write, one step per write issued to the io.Writer *)

\* mutant of TitleStr: the header does not follow IsSubGraph
TitleStrAlwaysDigraph(graph) ==
    <<"d","i","g","r","a","p","h"," ">> \o graph.Name \o <<" ","{","\n">>

\* title of Graph.Write
TitleStr(graph) ==
    IF graph.IsSubGraph
    THEN <<"s","u","b","g","r","a","p","h"," ">> \o graph.Name \o <<" ","{","\n">>
    ELSE <<"d","i","g","r","a","p","h"," ">> \o graph.Name \o <<" ","{","\n">>

\* fmt.Sprintf("%s=\"%s\"\n", "rank", graph.Rank)
RankStr(graph) == <<"r","a","n","k","=","\"">> \o graph.Rank \o <<"\"","\n">>

\* the string a Literal, *VertexDescription or *EdgeDescription hands to
\* io.WriteString; a vertex is read through its address when it is written
ElementStr(line) ==
    CASE line.kind = "literal" -> line.Line
      [] line.kind = "vertex"  -> VertexStr(vertices[line.ptr])
      [] line.kind = "edge"    -> EdgeStr(line)

\* the writes of the current call that the io.Writer failed
NumFails == Cardinality({k \in DOMAIN log : log[k].ev = "write" /\ log[k].err # Nil})

\* what a write may do: "ok", the writer takes the string; "fail", it takes
\* nothing and returns an error; "short", it takes the first byte and returns
\* an error (a flaky writer may fail any write, a sound one none)
Outcomes(flaky) == IF flaky THEN {"ok", "fail", "short"} ELSE {"ok"}

\* the error io.WriteString returns
WriteErr(ok) == IF ok = "ok" THEN Nil ELSE NumFails + 1

\* the bytes of the writer after io.WriteString(w, s)
Accepted(s, ok) ==
    CASE ok = "ok"    -> out \o s
      [] ok = "short" -> out \o SubSeq(s, 1, IF s = EmptyStr THEN 0 ELSE 1)
      [] ok = "fail"  -> out

WriteEvent(f, site, err) ==
    [ev |-> "write", path |-> f.path, site |-> site, i |-> f.i, err |-> err]

ReturnEvent(f, err) ==
    [ev |-> "return", path |-> f.path, site |-> "return", i |-> f.i, err |-> err]

\* a new activation of Graph.Write, on graph g, reached through body index path
Frame(g, path) == [g |-> g, pc |-> "title", i |-> 0, err |-> Nil, path |-> path]

\* return err: the frame is popped and the caller's line.Write(w) yields err
Return(f, err, events) ==
    /\ log' = log \o events \o <<ReturnEvent(f, err)>>
    /\ IF Tail(stack) = <<>>
       THEN stack' = <<>> /\ result' = err
       ELSE /\ stack' = <<[stack[2] EXCEPT !.err = err]>> \o Tail(Tail(stack))
            /\ result' = result

\* the frame goes on at pc, body index i
Goto(f, pc, i, err, events) ==
    /\ log' = log \o events
    /\ stack' = <<[f EXCEPT !.pc = pc, !.i = i, !.err = err]>> \o Tail(stack)
    /\ result' = result

\* mutant of LoopExit: only a failed line break ends the loop
LoopExitOnLineBreak(err, err2) == err2 # Nil

\* mutant of LoopReturn: the later error wins
LoopReturnLastWins(err, err2) == IF err2 # Nil THEN err2 ELSE err

\* the condition of the if in the body loop
LoopExit(err, err2) == err # Nil \/ err2 # Nil

\* the value that if returns
LoopReturn(err, err2) == err

\* the caller calls graph.Write(w) with a fresh writer
WriteCall(g) ==
    /\ stack = <<>>
    /\ stack' = <<Frame(g, <<>>)>>
    /\ prev' = IF result = Nil /\ NumFails = 0 THEN <<target, out>> ELSE <<>>
    /\ target' = g
    /\ out' = EmptyStr
    /\ log' = <<>>
    /\ result' = NotReturned
    /\ UNCHANGED <<graphs, vertices, calls>>

\* io.WriteString(w, title), and the test of graph.Rank
WriteTitle(flaky) ==
    /\ stack # <<>>
    /\ LET f == Head(stack)
           graph == graphs[f.g]
       IN  /\ f.pc = "title"
           /\ \E ok \in Outcomes(flaky) :
                LET err == WriteErr(ok)
                    ev  == <<WriteEvent(f, "title", err)>>
                IN  /\ out' = Accepted(TitleStr(graph), ok)
                    /\ IF err # Nil
                       THEN Return(f, err, ev)
                       ELSE Goto(f, IF graph.Rank # EmptyStr THEN "rank" ELSE "body",
                                 1, Nil, ev)
    /\ UNCHANGED <<graphs, vertices, calls, target, prev>>

\* io.WriteString(w, rank line)
WriteRank(flaky) ==
    /\ stack # <<>>
    /\ LET f == Head(stack)
           graph == graphs[f.g]
       IN  /\ f.pc = "rank"
           /\ \E ok \in Outcomes(flaky) :
                LET err == WriteErr(ok)
                    ev  == <<WriteEvent(f, "rank", err)>>
                IN  /\ out' = Accepted(RankStr(graph), ok)
                    /\ IF err # Nil
                       THEN Return(f, err, ev)
                       ELSE Goto(f, "body", 1, Nil, ev)
    /\ UNCHANGED <<graphs, vertices, calls, target, prev>>

\* err = line.Write(w), line a Literal, a vertex or an edge
WriteLine(flaky) ==
    /\ stack # <<>>
    /\ LET f == Head(stack)
           graph == graphs[f.g]
       IN  /\ f.pc = "body"
           /\ f.i <= Len(graph.Body)
           /\ graph.Body[f.i].kind # "graph"
           /\ \E ok \in Outcomes(flaky) :
                LET err == WriteErr(ok)
                IN  /\ out' = Accepted(ElementStr(graph.Body[f.i]), ok)
                    /\ Goto(f, "nl", f.i, err, <<WriteEvent(f, "line", err)>>)
    /\ UNCHANGED <<graphs, vertices, calls, target, prev>>

\* err = line.Write(w), line a nested *Graph: the call; err is set on return
CallLine ==
    /\ stack # <<>>
    /\ LET f == Head(stack)
           graph == graphs[f.g]
       IN  /\ f.pc = "body"
           /\ f.i <= Len(graph.Body)
           /\ graph.Body[f.i].kind = "graph"
           /\ stack' = <<Frame(graph.Body[f.i].ptr, Append(f.path, f.i)),
                         [f EXCEPT !.pc = "nl"]>> \o Tail(stack)
    /\ UNCHANGED <<graphs, vertices, calls, out, log, result, target, prev>>

\* _, err2 := io.WriteString(w, "\n"), and the if that follows it
WriteNewLine(flaky) ==
    /\ stack # <<>>
    /\ LET f == Head(stack)
       IN  /\ f.pc = "nl"
           /\ \E ok \in Outcomes(flaky) :
                LET err2 == WriteErr(ok)
                    ev   == <<WriteEvent(f, "nl", err2)>>
                IN  /\ out' = Accepted(<<"\n">>, ok)
                    /\ IF LoopExit(f.err, err2)
                       THEN Return(f, LoopReturn(f.err, err2), ev)
                       ELSE Goto(f, "body", f.i + 1, Nil, ev)
    /\ UNCHANGED <<graphs, vertices, calls, target, prev>>

\* mutant of WriteClose: the body is emptied once it is written
WriteCloseAndReset(flaky) ==
    /\ stack # <<>>
    /\ LET f == Head(stack)
           graph == graphs[f.g]
       IN  /\ f.pc = "body"
           /\ f.i > Len(graph.Body)
           /\ graphs' = [graphs EXCEPT ![f.g].Body = <<>>]
           /\ \E ok \in Outcomes(flaky) :
                LET err == WriteErr(ok)
                IN  /\ out' = Accepted(<<"}">>, ok)
                    /\ Return(f, err, <<WriteEvent(f, "close", err)>>)
    /\ UNCHANGED <<vertices, calls, target, prev>>

\* _, err = io.WriteString(w, "}"); return err
WriteClose(flaky) ==
    /\ stack # <<>>
    /\ LET f == Head(stack)
           graph == graphs[f.g]
       IN  /\ f.pc = "body"
           /\ f.i > Len(graph.Body)
           /\ \E ok \in Outcomes(flaky) :
                LET err == WriteErr(ok)
                IN  /\ out' = Accepted(<<"}">>, ok)
                    /\ Return(f, err, <<WriteEvent(f, "close", err)>>)
    /\ UNCHANGED <<graphs, vertices, calls, target, prev>>

\* the steps of an active Graph.Write
WriteStep(flaky) ==
    \/ WriteTitle(flaky)
    \/ WriteRank(flaky)
    \/ WriteLine(flaky)
    \/ CallLine
    \/ WriteNewLine(flaky)
    \/ WriteClose(flaky)

\* the caller calls line.Write(w) on a Literal, a vertex or an edge itself
ElementWriteCall(line, flaky) ==
    /\ stack = <<>>
    /\ result = NotReturned
    /\ \E ok \in Outcomes(flaky) :
         /\ out' = Accepted(ElementStr(line), ok)
         /\ log' = <<[ev |-> "write", path |-> <<>>, site |-> "line", i |-> 0,
                      err |-> WriteErr(ok)]>>
         /\ result' = WriteErr(ok)
    /\ UNCHANGED <<graphs, vertices, calls, stack, target, prev>>

-----------------------------------------------------------------------------
(* Specifications *)

Init ==
    /\ graphs = [g \in GraphIds |-> NewGraph(GraphName(g))]
    /\ vertices = [v \in VertexIds |-> NewVertexDescription(VertexName(v))]
    /\ calls = [g \in GraphIds |-> <<>>]
    /\ stack = <<>>
    /\ out = EmptyStr
    /\ log = <<>>
    /\ result = NotReturned
    /\ target = 0
    /\ prev = <<>>

\* the builder and a writer that accepts every write
Next ==
    \/ \E g \in GraphIds : AddComment(g, Hello)
    \/ \E g \in GraphIds : AddNewLine(g)
    \/ \E g \in GraphIds, v \in VertexIds : AddVertex(g, v)
    \/ \E g \in GraphIds : AddEdge(g, 1, 2, TRUE, EmptyStr)
    \/ \E g, sGraph \in GraphIds : AddSubGraph(g, sGraph)
    \/ SetRank(1, Same)
    \/ SetIsSubGraph(2, TRUE)
    \/ \E g \in GraphIds : result = NotReturned /\ WriteCall(g)
    \/ WriteStep(FALSE)

Spec == Init /\ [][Next]_vars

\* the builder and a writer that may fail any write; the caller may call
\* Write again after a call that met no failure
NextErr ==
    \/ \E g \in GraphIds : AddComment(g, Hello)
    \/ AddNewLine(1)
    \/ \E g \in GraphIds : AddVertex(g, 1)
    \/ AddEdge(2, 1, 2, FALSE, Dotted)
    \/ \E g, sGraph \in GraphIds : AddSubGraph(g, sGraph)
    \/ SetRank(1, Same)
    \/ \E g \in GraphIds : prev = <<>> /\ WriteCall(g)
    \/ WriteStep(TRUE)

SpecErr == Init /\ [][NextErr]_vars

\* what the caller may assign to a vertex once it is in use
LaterIDs == {<<"a">>, <<"c">>}
LaterLabels == {EmptyStr, <<"x">>}

\* vertices and edges of one graph, the caller changing vertex 1 meanwhile
NextSnap ==
    \/ \E v \in VertexIds : AddVertex(1, v)
    \/ \E v1, v2 \in VertexIds : v1 # v2 /\ AddEdge(1, v1, v2, TRUE, EmptyStr)
    \/ \E id \in LaterIDs : SetVertexField(1, "ID", id)
    \/ \E label \in LaterLabels : SetVertexField(1, "Label", label)
    \/ result = NotReturned /\ WriteCall(1)
    \/ WriteTitle(FALSE)
    \/ WriteLine(FALSE)
    \/ WriteNewLine(FALSE)
    \/ WriteClose(FALSE)

SpecSnap == Init /\ [][NextSnap]_vars

\* the values drawn for the string attributes of a vertex
StrVals == {EmptyStr, <<"x">>, <<"<","b",">">>}
\* the values drawn for Peripheries
IntVals == {0 - MaxPeriph, 0 - 1, 0, 7, MaxPeriph}

\* any vertex 1 over the drawn attribute values
InitVertex ==
    /\ graphs = [g \in GraphIds |-> NewGraph(GraphName(g))]
    /\ \E v \in [ID : {<<"a">>, <<"n","1">>}, Label : StrVals, Group : StrVals,
                 Color : StrVals, Style : StrVals, ColorScheme : StrVals,
                 FontColor : StrVals, FontName : StrVals, Shape : StrVals,
                 Peripheries : IntVals] :
         vertices = [w \in VertexIds |->
                        IF w = 1 THEN v ELSE NewVertexDescription(VertexName(w))]
    /\ calls = [g \in GraphIds |-> <<>>]
    /\ stack = <<>>
    /\ out = EmptyStr
    /\ log = <<>>
    /\ result = NotReturned
    /\ target = 0
    /\ prev = <<>>

\* v.Write(w) on vertex 1
NextVertex == ElementWriteCall(VertexRef(1), FALSE)

SpecVertex == InitVertex /\ [][NextVertex]_vars

\* the endpoint vertices drawn for an edge
EndVals == [ID : {<<"a">>, <<"b">>}, Label : {EmptyStr, <<"x">>},
            Color : {EmptyStr, <<"r","e","d">>}]

EndVertex(e) ==
    [NewVertexDescription(e.ID) EXCEPT !.Label = e.Label, !.Color = e.Color]

\* any two vertices over the drawn endpoint values
InitEdge ==
    /\ graphs = [g \in GraphIds |-> NewGraph(GraphName(g))]
    /\ \E e1, e2 \in EndVals :
         vertices = [w \in VertexIds |-> IF w = 1 THEN EndVertex(e1) ELSE EndVertex(e2)]
    /\ calls = [g \in GraphIds |-> <<>>]
    /\ stack = <<>>
    /\ out = EmptyStr
    /\ log = <<>>
    /\ result = NotReturned
    /\ target = 0
    /\ prev = <<>>

\* one edge is built from the two vertices, and e.Write(w) is called on it
NextEdge ==
    \/ \E v1, v2 \in VertexIds, d \in BOOLEAN, s \in {EmptyStr, Dotted} :
         calls[1] = <<>> /\ AddEdge(1, v1, v2, d, s)
    \/ graphs[1].Body # <<>> /\ ElementWriteCall(graphs[1].Body[1], FALSE)

SpecEdge == InitEdge /\ [][NextEdge]_vars

-----------------------------------------------------------------------------
(* Error handling of Graph.Write (SpecErr) *)

\* the outermost Write call has returned
Returned == stack = <<>> /\ result # NotReturned

\* event k is a write the writer failed
FailedWrite(k) == log[k].ev = "write" /\ log[k].err # Nil

\* event k is what line.Write(w) yielded for body index i of frame path:
\* the write of a Literal, vertex or edge, or the return of a nested graph
LineResult(k, path, i) ==
    \/ log[k].ev = "write" /\ log[k].site = "line" /\ log[k].path = path /\ log[k].i = i
    \/ log[k].ev = "return" /\ log[k].path = Append(path, i)

\* event k is the line break written after body index i of frame path
LineBreak(k, path, i) ==
    log[k].ev = "write" /\ log[k].site = "nl" /\ log[k].path = path /\ log[k].i = i

\* event k is the return of frame path
ReturnOf(k, path) == log[k].ev = "return" /\ log[k].path = path

\* C1: when any write issued during Graph.Write fails, the outermost call
\* returns an error of a failed write, never nil.
C1_ErrorsPropagate ==
    (Returned /\ \E k \in DOMAIN log : FailedWrite(k))
        => /\ result # Nil
           /\ \E k \in DOMAIN log : FailedWrite(k) /\ log[k].err = result

\* the frames in which line.Write(w) failed with e1 and the line break that
\* follows failed with e2, and what the frame returned
BothFailed(k) ==
    /\ k + 2 <= Len(log)
    /\ LET path == log[k + 1].path
           i    == log[k + 1].i
       IN  /\ LineResult(k, path, i)
           /\ LineBreak(k + 1, path, i)
           /\ ReturnOf(k + 2, path)
    /\ log[k].err # Nil
    /\ log[k + 1].err # Nil

\* C2 (as stated): when an element's Write fails with E1 and the line break
\* after it fails with E2, Graph.Write returns E2.
C2_LineBreakErrorWins ==
    \A k \in DOMAIN log : BothFailed(k) => log[k + 2].err = log[k + 1].err

\* C2 (amended): when an element's Write fails with E1 and the line break
\* after it fails with E2, Graph.Write returns E1, the element's error.
C2_ElementErrorWins ==
    \A k \in DOMAIN log : BothFailed(k) => log[k + 2].err = log[k].err

\* the outermost call met both failures on its first element and returned
C2_Witness ==
    /\ Returned
    /\ \E k \in DOMAIN log :
         /\ BothFailed(k)
         /\ log[k].path = <<>>
         /\ log[k].err # log[k + 1].err
         /\ result = log[k].err

\* sequence a begins sequence b
IsPrefix(a, b) == Len(a) <= Len(b) /\ SubSeq(b, 1, Len(a)) = a

\* the frame that called the frame path, and the body index it called it at
Parent(path) == SubSeq(path, 1, Len(path) - 1)
CallIndex(path) == path[Len(path)]

\* no event after event k belongs to frame path
NothingLater(k, path) == \A j \in DOMAIN log : j > k => log[j].path # path

\* a failed header or rank write: the frame returns that error at once
\* and issues no further write
HeaderFailure(k) ==
    (FailedWrite(k) /\ log[k].site \in {"title", "rank"})
        => /\ k + 1 <= Len(log)
           /\ ReturnOf(k + 1, log[k].path)
           /\ log[k + 1].err = log[k].err
           /\ NothingLater(k + 1, log[k].path)

\* after line.Write(w) failed at body index i, frame path issues the line
\* break after that element, then returns, and issues nothing else
OneLineBreakThenReturn(k, path, i) ==
    /\ Len(log) = k => (stack # <<>> /\ Head(stack).path = path
                        /\ Head(stack).pc = "nl" /\ Head(stack).i = i)
    /\ Len(log) > k => /\ k + 2 <= Len(log)
                       /\ LineBreak(k + 1, path, i)
                       /\ ReturnOf(k + 2, path)
                       /\ NothingLater(k + 2, path)

\* a failed write of a Literal, vertex or edge
ElementFailure(k) ==
    (FailedWrite(k) /\ log[k].site = "line")
        => OneLineBreakThenReturn(k, log[k].path, log[k].i)

\* a nested graph whose Write returned an error
NestedFailure(k) ==
    (log[k].ev = "return" /\ log[k].err # Nil /\ log[k].path # <<>>)
        => OneLineBreakThenReturn(k, Parent(log[k].path), CallIndex(log[k].path))

\* no write is issued twice
NoRetry(k) ==
    \A j \in DOMAIN log :
        (j < k /\ log[j].ev = "write" /\ log[k].ev = "write")
            => <<log[j].path, log[j].site, log[j].i>> # <<log[k].path, log[k].site, log[k].i>>

WritesAfterFailure ==
    \A k \in DOMAIN log :
        HeaderFailure(k) /\ ElementFailure(k) /\ NestedFailure(k) /\ NoRetry(k)

\* C10: a failed header or rank write ends that graph's Write at once; after
\* a failed body element (a nested graph that returned an error included) the
\* graph issues the line break after it and returns, emitting no remaining
\* element and no closing brace; no write is retried and the bytes the writer
\* accepted are never taken back.
C10_WritesAfterFailure ==
    [][ /\ WritesAfterFailure'
        /\ stack # <<>> => (IsPrefix(out, out') /\ IsPrefix(log, log')) ]_vars

\* the first element of a nested graph failed, the outer graph holding a
\* further element, and the outermost call has returned that error
C10_Witness ==
    /\ Returned
    /\ Len(graphs[target].Body) > 1
    /\ \E k \in DOMAIN log :
         /\ FailedWrite(k)
         /\ log[k].site = "line"
         /\ log[k].path = <<1>>
         /\ result = log[k].err

\* a Write step leaves the model as it is
ModelUntouched == (stack # <<>> \/ stack' # <<>>) => UNCHANGED <<graphs, vertices>>

\* a call that met no failure emitted what the failure-free call before it
\* emitted for the same, unchanged graph
SameBytesAgain ==
    (Returned /\ result = Nil /\ NumFails = 0 /\ prev # <<>>)
        => (prev[1] = target => out = prev[2])

\* C4: Graph.Write changes no graph, element or vertex, whether it succeeds
\* or fails, and two calls on an unchanged graph whose writers accept every
\* write emit the same bytes.
C4_WriteIsPure == [][ModelUntouched /\ SameBytesAgain']_vars

\* a graph holding a nested graph and a vertex was written twice
C4_Witness ==
    /\ Returned /\ result = Nil /\ NumFails = 0
    /\ prev # <<>> /\ prev[1] = target
    /\ \E k \in DOMAIN graphs[target].Body :
         /\ graphs[target].Body[k].kind = "graph"
         /\ \E j \in DOMAIN graphs[graphs[target].Body[k].ptr].Body :
              graphs[graphs[target].Body[k].ptr].Body[j].kind = "vertex"

-----------------------------------------------------------------------------
(* What a sound writer receives (Spec, SpecSnap) *)

\* the outermost call returned nil
Written == Returned /\ result = Nil

RECURSIVE GraphText(_), LinesText(_, _)
\* header, rank line if any, every body element with a line break, "}"
GraphText(g) ==
    LET graph == graphs[g]
        header == IF graph.IsSubGraph
                  THEN <<"s","u","b","g","r","a","p","h"," ">>
                  ELSE <<"d","i","g","r","a","p","h"," ">>
        rank == IF graph.Rank # EmptyStr
                THEN <<"r","a","n","k","=","\"">> \o graph.Rank \o <<"\"","\n">>
                ELSE EmptyStr
    IN  header \o graph.Name \o <<" ","{","\n">> \o rank \o LinesText(g, 1) \o <<"}">>

\* the body elements of graph g from index k on, each with its line break
LinesText(g, k) ==
    IF k > Len(graphs[g].Body) THEN EmptyStr
    ELSE LET line == graphs[g].Body[k]
         IN  (IF line.kind = "graph" THEN GraphText(line.ptr) ELSE ElementStr(line))
                 \o <<"\n">> \o LinesText(g, k + 1)

\* graph 1 is the empty top-level graph G without a rank
EmptyExample == graphs[1] = NewGraph(<<"G">>)

\* graph 1 is G with rank "same" holding the subgraph-flagged S, S holding
\* the vertex a
NestedExample ==
    /\ graphs[1] = [Name |-> <<"G">>, Body |-> <<GraphRef(2)>>,
                    IsSubGraph |-> FALSE, Rank |-> Same]
    /\ graphs[2] = [Name |-> <<"S">>, Body |-> <<VertexRef(1)>>,
                    IsSubGraph |-> TRUE, Rank |-> EmptyStr]
    /\ vertices[1] = NewVertexDescription(<<"a">>)

NestedExampleText ==
    <<"d","i","g","r","a","p","h"," ","G"," ","{","\n",
      "r","a","n","k","=","\"","s","a","m","e","\"","\n",
      "s","u","b","g","r","a","p","h"," ","S"," ","{","\n",
      "a"," ","[","]","\n",
      "}","\n",
      "}">>

\* C6: to a writer that accepts every write, Graph.Write emits the header
\* (digraph or subgraph by IsSubGraph), the rank line iff Rank is non-empty,
\* each body element followed by one line break, nested graphs by the same
\* rule and unindented, and "}" without a line break after it.
C6_GraphText ==
    Written =>
        /\ out = GraphText(target)
        /\ (target = 1 /\ EmptyExample)
              => out = <<"d","i","g","r","a","p","h"," ","G"," ","{","\n","}">>
        /\ (target = 1 /\ NestedExample) => out = NestedExampleText

\* the nested example has been written
C6_Witness == Written /\ target = 1 /\ NestedExample /\ out = NestedExampleText

\* the step is the call AddSubGraph(g, sGraph)
SubGraphAdded(g, sGraph) ==
    calls'[g] = Append(calls[g], [op |-> "AddSubGraph", sGraph |-> sGraph])

\* AddSubGraph appends the graph to the parent and changes nothing else
SubGraphKept ==
    \A g, sGraph \in GraphIds :
        SubGraphAdded(g, sGraph) =>
            /\ graphs'[g] = [graphs[g] EXCEPT !.Body = Append(@, GraphRef(sGraph))]
            /\ \A h \in GraphIds \ {g} : graphs'[h] = graphs[h]
            /\ vertices' = vertices

\* the header a nested graph writes is chosen by its own flag
NestedHeaderByOwnFlag ==
    (stack # <<>> /\ Head(stack).pc = "title" /\ Head(stack).path # <<>>) =>
        LET graph == graphs[Head(stack).g]
        IN  out' = out \o (IF graph.IsSubGraph
                           THEN <<"s","u","b","g","r","a","p","h"," ">>
                           ELSE <<"d","i","g","r","a","p","h"," ">>)
                       \o graph.Name \o <<" ","{","\n">>

\* C7: AddSubGraph appends the graph to the parent's body and changes neither
\* its IsSubGraph flag nor another field of it; nested, it renders digraph or
\* subgraph by its own flag, so a graph from NewGraph whose flag the caller
\* never set (graph 1 here) keeps a false flag and renders digraph.
C7_SubGraphOwnFlag ==
    [][SubGraphKept /\ NestedHeaderByOwnFlag /\ ~graphs'[1].IsSubGraph]_vars

\* graph 1, fresh from NewGraph, was added to graph 2 and written inside it
C7_Witness ==
    /\ Written /\ target = 2
    /\ graphs[2].Body = <<GraphRef(1)>>
    /\ out = <<"d","i","g","r","a","p","h"," ","S"," ","{","\n",
               "d","i","g","r","a","p","h"," ","G"," ","{","\n","}","\n","}">>

\* the body element an Add* call stands for
IsElementOf(call, line) ==
    CASE call.op = "AddComment" ->
            line = [kind |-> "literal", Line |-> <<"/","*"," ">> \o call.text \o <<" ","*","/">>]
      [] call.op = "AddNewLine" -> line = [kind |-> "literal", Line |-> EmptyStr]
      [] call.op = "AddVertex" -> line = [kind |-> "vertex", ptr |-> call.v]
      [] call.op = "AddEdge" ->
            /\ line.kind = "edge"
            /\ line.From.ID = call.id1 /\ line.To.ID = call.id2
            /\ line.Directed = call.directed /\ line.Style = call.style
      [] call.op = "AddSubGraph" -> line = [kind |-> "graph", ptr |-> call.sGraph]

\* a step that is an Add* call on g lengthens g's body by its element, at
\* the end; any other step leaves the body as it is
AppendOnly ==
    \A g \in GraphIds :
        LET old == graphs[g].Body
            new == graphs'[g].Body
        IN  IF calls'[g] # calls[g]
            THEN /\ Len(new) = Len(old) + 1
                 /\ SubSeq(new, 1, Len(old)) = old
                 /\ IsElementOf(calls'[g][Len(calls'[g])], new[Len(new)])
            ELSE new = old

RECURSIVE CallsText(_), CallLinesText(_, _)
\* what a graph renders to when its lines are those of the calls, in call order
CallsText(g) ==
    TitleStr(graphs[g])
        \o (IF graphs[g].Rank # EmptyStr THEN RankStr(graphs[g]) ELSE EmptyStr)
        \o CallLinesText(g, 1) \o <<"}">>

CallLinesText(g, k) ==
    IF k > Len(calls[g]) THEN EmptyStr
    ELSE LET call == calls[g][k]
             text == CASE call.op = "AddComment" -> <<"/","*"," ">> \o call.text \o <<" ","*","/">>
                       [] call.op = "AddNewLine" -> EmptyStr
                       [] call.op = "AddVertex" -> VertexStr(vertices[call.v])
                       [] call.op = "AddEdge" ->
                            EdgeStr([From |-> [ID |-> call.id1], To |-> [ID |-> call.id2],
                                     Directed |-> call.directed, Style |-> call.style])
                       [] call.op = "AddSubGraph" -> CallsText(call.sGraph)
         IN  text \o <<"\n">> \o CallLinesText(g, k + 1)

\* vertex a, edge a -> b, vertex b were added to graph 1, in that order
OrderExample ==
    /\ calls[1] = << [op |-> "AddVertex", v |-> 1],
                     [op |-> "AddEdge", v1 |-> 1, v2 |-> 2, id1 |-> <<"a">>, id2 |-> <<"b">>,
                      directed |-> TRUE, style |-> EmptyStr],
                     [op |-> "AddVertex", v |-> 2] >>
    /\ graphs[1].Rank = EmptyStr

OrderExampleText ==
    <<"d","i","g","r","a","p","h"," ","G"," ","{","\n",
      "a"," ","[","]","\n",
      "a"," ","-",">"," ","b","\n",
      "b"," ","[","]","\n",
      "}">>

InCallOrder ==
    Written =>
        /\ out = CallsText(target)
        /\ (target = 1 /\ OrderExample) => out = OrderExampleText

\* C5: every AddComment, AddNewLine, AddVertex, AddEdge and AddSubGraph call
\* lengthens the body by one, puts its element last and leaves the earlier
\* elements and their order alone; a successful Graph.Write emits the body
\* lines in the order of the calls.
C5_AppendOnlyInOrder == [][AppendOnly /\ InCallOrder']_vars

\* vertex a, edge a -> b, vertex b have been written in that order
C5_Witness == Written /\ target = 1 /\ OrderExample /\ out = OrderExampleText

\* the line an Add* call of SpecSnap renders to: a vertex with its fields of
\* now, an edge with the identifiers its vertices had at the call
SnapLine(call) ==
    IF call.op = "AddVertex"
    THEN VertexStr(vertices[call.v])
    ELSE call.id1 \o <<" ","-",">"," ">> \o call.id2

RECURSIVE SnapLinesText(_)
SnapLinesText(cs) ==
    IF cs = <<>> THEN EmptyStr
    ELSE SnapLine(Head(cs)) \o <<"\n">> \o SnapLinesText(Tail(cs))

\* C3: AddEdge copies both endpoint vertices at the call and AddVertex keeps
\* the address: after the caller changes a vertex (its ID included), Write
\* renders each edge with the identifiers of the time of its AddEdge call and
\* each vertex line with the vertex's fields of the time of the Write.
C3_EdgeSnapshotVertexLive ==
    Written =>
        out = <<"d","i","g","r","a","p","h"," ","G"," ","{","\n">>
                \o SnapLinesText(calls[1]) \o <<"}">>

\* vertex 1 was added and made an endpoint as "a", then renamed and labelled
C3_Witness ==
    /\ Written
    /\ calls[1] = << [op |-> "AddVertex", v |-> 1],
                     [op |-> "AddEdge", v1 |-> 1, v2 |-> 2, id1 |-> <<"a">>, id2 |-> <<"b">>,
                      directed |-> TRUE, style |-> EmptyStr] >>
    /\ vertices[1].ID = <<"c">>
    /\ vertices[1].Label = <<"x">>
    /\ out = <<"d","i","g","r","a","p","h"," ","G"," ","{","\n",
               "c"," ","[","l","a","b","e","l","=","\"","x","\""," ","]","\n",
               "a"," ","-",">"," ","b","\n",
               "}">>

-----------------------------------------------------------------------------
(* The text of a vertex and of an edge (SpecVertex, SpecEdge) *)

\* name=value or name="value", and one space; nothing for an unset value
StringAttr(name, value) ==
    IF value = EmptyStr THEN EmptyStr
    ELSE IF Head(value) = "<"
         THEN name \o <<"=">> \o value \o <<" ">>
         ELSE name \o <<"=","\"">> \o value \o <<"\""," ">>

\* the decimal numeral of n, |n| < 100
Numeral(n) ==
    LET m == IF n < 0 THEN 0 - n ELSE n
        digits == IF m < 10 THEN <<DigitChars[m + 1]>>
                  ELSE <<DigitChars[(m \div 10) + 1], DigitChars[(m % 10) + 1]>>
    IN  IF n < 0 THEN <<"-">> \o digits ELSE digits

\* peripheries="N" and one space; nothing for zero
PeripheriesAttr(n) ==
    IF n = 0 THEN EmptyStr
    ELSE <<"p","e","r","i","p","h","e","r","i","e","s","=","\"">> \o Numeral(n) \o <<"\""," ">>

VertexText(v) ==
    v.ID \o <<" ","[">>
        \o StringAttr(<<"l","a","b","e","l">>, v.Label)
        \o StringAttr(<<"g","r","o","u","p">>, v.Group)
        \o StringAttr(<<"c","o","l","o","r">>, v.Color)
        \o StringAttr(<<"s","t","y","l","e">>, v.Style)
        \o StringAttr(<<"c","o","l","o","r","s","c","h","e","m","e">>, v.ColorScheme)
        \o StringAttr(<<"f","o","n","t","c","o","l","o","r">>, v.FontColor)
        \o StringAttr(<<"f","o","n","t","n","a","m","e">>, v.FontName)
        \o StringAttr(<<"s","h","a","p","e">>, v.Shape)
        \o PeripheriesAttr(v.Peripheries)
        \o <<"]">>

\* C8: VertexDescription.Write renders "<id> [" + attributes + "]", the
\* attributes in the order label, group, color, style, colorscheme,
\* fontcolor, fontname, shape, peripheries; a string attribute iff non-empty,
\* unquoted when it starts with "<" and quoted otherwise; peripheries iff
\* non-zero, negative values included; one space after each attribute; a
\* vertex with nothing set renders "<id> []".
C8_VertexText ==
    Written =>
        /\ out = VertexText(vertices[1])
        /\ vertices[1] = NewVertexDescription(vertices[1].ID)
              => out = vertices[1].ID \o <<" ","[","]">>

\* a vertex with every attribute set, an HTML-like label and a negative
\* peripheries has been written
C8_Witness ==
    /\ Written
    /\ vertices[1].Label = <<"<","b",">">>
    /\ vertices[1].Peripheries = 0 - 1
    /\ out = <<"a"," ","[","l","a","b","e","l","=","<","b",">"," ","g","r","o",
               "u","p","=","\"","x","\""," ","c","o","l","o","r","=","\"","x","\"",
               " ","s","t","y","l","e","=","\"","x","\""," ","c","o","l","o","r",
               "s","c","h","e","m","e","=","\"","x","\""," ","f","o","n","t","c",
               "o","l","o","r","=","\"","x","\""," ","f","o","n","t","n","a","m",
               "e","=","\"","x","\""," ","s","h","a","p","e","=","\"","x","\""," ",
               "p","e","r","i","p","h","e","r","i","e","s","=","\"","-","1","\"",
               " ","]">>

\* C9: EdgeDescription.Write renders "<from.ID> -> <to.ID>" for a directed
\* edge and "<from.ID> -- <to.ID>" otherwise, then ` [ style="<style>" ]`
\* iff Style is non-empty; nothing of the endpoints but the identifiers they
\* had at the AddEdge call enters the text.
C9_EdgeText ==
    (Written /\ calls[1] # <<>>) =>
        LET call == calls[1][1]
        IN  out = call.id1
                    \o (IF call.directed THEN <<" ","-",">"," ">> ELSE <<" ","-","-"," ">>)
                    \o call.id2
                    \o (IF call.style = EmptyStr THEN EmptyStr
                        ELSE <<" ","["," ","s","t","y","l","e","=","\"">>
                                \o call.style \o <<"\""," ","]">>)

\* an undirected, styled edge between labelled, coloured vertices was written
C9_Witness ==
    /\ Written
    /\ graphs[1].Body # <<>>
    /\ graphs[1].Body[1].From.Label # EmptyStr
    /\ graphs[1].Body[1].To.Color # EmptyStr
    /\ out = <<"a"," ","-","-"," ","b"," ","["," ","s","t","y","l","e","=","\"",
               "d","o","t","t","e","d","\""," ","]">>

====
